---- MODULE Spec2Model ----
(***************************************************************************)
(* The event-description subsystem of flask-fullstack                       *)
(* (src/flask_siox/events.py): BaseEvent, Event, ClientEvent, ServerEvent   *)
(* and DuplexEvent, as a state machine over one client event, one server   *)
(* event and the duplex event that pairs them.                              *)
(*                                                                         *)
(* Python values are tagged records: the tag t names the Python type, and   *)
(* each type keeps its payload under a key of its own (n, s, l, d, ...).    *)
(***************************************************************************)
EXTENDS Integers, Sequences, FiniteSets, TLC

VARIABLES
    client,     \* the ClientEvent object
    server,     \* the ServerEvent object
    duplex,     \* the DuplexEvent object (its children are client and server)
    built,      \* which of the three objects have been constructed
    attached,   \* history: the DuplexEvent setters that have run
    replaced,   \* history: the handler attach_ack found bound when it last ran
    last        \* the last call: operation, arguments, outcome, calls it made

vars == <<client, server, duplex, built, attached, replaced, last>>

---------------------------------------------------------------------------
(* Bounds of the model *)

\* integers carried by payloads range over 0..MaxVal; a handler returning a
\* sequence returns one of 0..MaxVal elements
MaxVal == 2

\* how many distinct name / namespace strings the callers draw from
NumNames == 2

---------------------------------------------------------------------------
(* Python values *)

None == [t |-> "None"]
PyInt(n) == [t |-> "int", n |-> n]
PyStr(s) == [t |-> "str", s |-> s]
PyBool(b) == [t |-> "bool", b |-> b]
PyList(l) == [t |-> "list", l |-> l]
PyDict(d) == [t |-> "dict", d |-> d]
PySet(s) == [t |-> "set", e |-> s]
PyObj(cls, fields) == [t |-> "obj", cls |-> cls, fields |-> fields]

EmptyDict == [k \in {} |-> None]

\* d1 overridden by d2, as dict(d1, **d2) or d1.update(d2)
Merge(d1, d2) ==
    [k \in DOMAIN d1 \cup DOMAIN d2 |-> IF k \in DOMAIN d2 THEN d2[k] ELSE d1[k]]

\* x or {}
OrEmpty(x) == IF x = None THEN EmptyDict ELSE x.d

\* str(x) inside an f-string
Format(x) == IF x = None THEN "None" ELSE x.s

\* Outcome of a call: a returned value or a raised exception
Ok(v) == [status |-> "ok", ret |-> v]
Raise(e) == [status |-> e, ret |-> None]

NamePool == <<"a", "b", "c", "d">>
Names == {PyStr(NamePool[i]) : i \in 1..NumNames}
OptNames == {None} \cup Names

Digits == <<"0", "1", "2", "3", "4", "5">>

---------------------------------------------------------------------------
(* The schema layer: pydantic models and the rendering helpers of          *)
(* flask_siox/utils                                                        *)

\* Ping{value: int} is the payload schema, Pong{value: int, note:
\* Optional[str], alias Note} the acknowledgment and emit schema
\* Pong carries a display name of its own, Ping only its type name
Ping == [typename |-> "Ping", name |-> None]

Pong == [typename |-> "Pong", name |-> PyStr("Acks.Pong")]

Fields(model) == IF model = Ping THEN {"value"} ELSE {"value", "note"}

Alias(f) == IF f = "note" THEN "Note" ELSE f

FieldOf(a) == IF a = "Note" THEN "note" ELSE a

\* what pydantic makes of a raw value given for an int field: an int is
\* kept, a numeric string is coerced, anything else is refused
IsNumeric(s) == \E i \in 1..Len(Digits) : Digits[i] = s

ToInt(s) == (CHOOSE i \in 1..Len(Digits) : Digits[i] = s) - 1

CoerceInt(v) ==
    IF v.t = "int" THEN Ok(v)
    ELSE IF v.t = "str" /\ IsNumeric(v.s) THEN Ok(PyInt(ToInt(v.s)))
    ELSE Raise("ValidationError")

\* Ping.parse_obj(data).dict()
parse_obj(model, data) ==
    IF data.t # "dict" THEN Raise("ValidationError")
    ELSE IF "value" \notin DOMAIN data.d THEN Raise("ValidationError")
    ELSE LET v == CoerceInt(data.d["value"])
         IN  IF v.status # "ok" THEN v ELSE Ok(PyDict([value |-> v.ret]))

\* the fields kept by include / exclude / exclude_none
Kept(model, fields, kwargs) ==
    {f \in Fields(model) :
        /\ kwargs.include = None \/ f \in kwargs.include.e
        /\ kwargs.exclude = None \/ f \notin kwargs.exclude.e
        /\ ~(kwargs.exclude_none /\ fields[f] = None)}

\* instance.dict(**kwargs)
DictOf(model, fields, kwargs) ==
    LET kept == Kept(model, fields, kwargs)
        key(f) == IF kwargs.by_alias THEN Alias(f) ELSE f
    IN  PyDict([k \in {key(f) : f \in kept} |->
                 fields[IF kwargs.by_alias THEN FieldOf(k) ELSE k]])

\* render_model(model, data, **kwargs): an instance of the schema is
\* serialized; a bare int stands for the schema's first field; anything
\* else does not conform
render_model(model, data, kwargs) ==
    IF data.t = "obj" /\ data.cls = model
    THEN Ok(DictOf(model, data.fields, kwargs))
    ELSE IF data.t = "int"
    THEN Ok(DictOf(model, [f \in Fields(model) |->
                              IF f = "value" THEN data ELSE None], kwargs))
    ELSE Raise("ValidationError")

\* unpack_params(model, result, **kwargs): each element rendered on its own
unpack_params(model, result, kwargs) ==
    LET each == [i \in 1..Len(result.l) |-> render_model(model, result.l[i], kwargs)]
    IN  IF \E i \in 1..Len(each) : each[i].status # "ok"
        THEN Raise("ValidationError")
        ELSE Ok(PyList([i \in 1..Len(each) |-> each[i].ret]))

\* render_packed(*params): the packed multi-value acknowledgment
render_packed(params) ==
    IF params.status # "ok" THEN params
    ELSE Ok([t |-> "packed", l |-> params.ret.l])

\* isinstance(result, Sequence)
IsSequence(v) == v.t \in {"list", "str"}

---------------------------------------------------------------------------
(* User handler functions: each takes the parsed field `value` *)

Functions == {"inc", "pong", "noted", "many", "nothing"}

Apply(function, kw) ==
    LET n == kw.d["value"].n
    IN  CASE function = "inc" -> PyInt(n + 1)
          [] function = "pong" -> PyObj(Pong, [value |-> PyInt(n), note |-> None])
          [] function = "noted" -> PyObj(Pong, [value |-> PyInt(n), note |-> PyStr("hi")])
          [] function = "many" ->
                PyList([i \in 1..n |->
                        PyObj(Pong, [value |-> PyInt(i),
                                     note |-> IF i = 1 THEN None ELSE PyStr("hi")])])
          [] OTHER -> None

---------------------------------------------------------------------------
(* Construction *)

\* Event.__init__ over BaseEvent.__init__; attach_name is Event.attach_name
Event(model, namespace, name, description, additional_docs) ==
    [name |-> IF name # None THEN name ELSE None,
     namespace |-> namespace,
     additional_docs |-> additional_docs,
     model |-> model,
     description |-> description]

\* the rendering options both __init__s and attach_ack store
Kwargs(include, exclude, exclude_none) ==
    [exclude_none |-> exclude_none # PyBool(FALSE),
     include |-> include,
     exclude |-> exclude,
     by_alias |-> TRUE]

ClientEvent(model, ack_model, namespace, name, description, handler, include, exclude, force_wrap, exclude_none, additional_docs) ==
    Event(model, namespace, name, description, additional_docs)
    @@ [_ack_kwargs |-> Kwargs(include, exclude, exclude_none),
        handler |-> handler,
        ack_model |-> ack_model,
        force_wrap |-> (force_wrap = PyBool(TRUE))]

ServerEvent(model, namespace, name, description, include, exclude, exclude_none, additional_docs) ==
    Event(model, namespace, name, description, additional_docs)
    @@ [_emit_kwargs |-> Kwargs(include, exclude, exclude_none)]

\* the state before any constructor has run
Init ==
    /\ client = None
    /\ server = None
    /\ duplex = None
    /\ built = {}
    /\ attached = {}
    /\ replaced = None
    /\ last = [op |-> "start", args |-> None, status |-> "ok", ret |-> None,
               calls |-> <<>>, emits |-> <<>>]

\* the record of a call: what ran, on what, how it ended, and the calls it
\* made to the user function and to the transport
Called(op, args, outcome, calls, emits) ==
    [op |-> op, args |-> args, status |-> outcome.status, ret |-> outcome.ret,
     calls |-> calls, emits |-> emits]

NewClientEvent(model, ack_model, namespace, name, description, include, exclude, force_wrap, exclude_none, additional_docs) ==
    /\ "client" \notin built
    /\ client' = ClientEvent(model, ack_model, namespace, name, description, None,
                             include, exclude, force_wrap, exclude_none,
                             additional_docs)
    /\ built' = built \cup {"client"}
    /\ last' = Called("ClientEvent", None, Ok(None), <<>>, <<>>)
    /\ UNCHANGED <<server, duplex, attached, replaced>>

---------------------------------------------------------------------------
(* ClientEvent: parse, bind, attach_ack and the bound handler *)

parse(self, data) == parse_obj(self.model, data)

\* a variant that envelopes whatever it rendered, packed or not, whenever
\* force_wrap is set
_ack_response_envelope_all(self, result) ==
    LET r == IF IsSequence(result)
             THEN render_packed(unpack_params(self.ack_model, result, self._ack_kwargs))
             ELSE render_model(self.ack_model, result, self._ack_kwargs)
    IN  IF r.status # "ok" THEN r
        ELSE IF self.force_wrap THEN Ok(PyDict([data |-> r.ret])) ELSE r

_ack_response(self, result) ==
    IF IsSequence(result)
    THEN render_packed(unpack_params(self.ack_model, result, self._ack_kwargs))
    ELSE LET r == render_model(self.ack_model, result, self._ack_kwargs)
         IN  IF r.status # "ok" THEN r
             ELSE IF self.force_wrap THEN Ok(PyDict([data |-> r.ret])) ELSE r

\* the closure _handler returns: which _handler_inner, over which function
_handler(self, function) ==
    [t |-> "function", code |-> "_handler_inner",
     ack |-> (self.ack_model # None), function |-> function]

\* the closure attach_ack stores: lambda data=None: ...
Lambda == [t |-> "function", code |-> "lambda"]

\* a variant whose plain handler envelopes the function's return value
Invoke_enveloped(self, data) ==
    LET h == self.handler
    IN  IF h.code = "lambda"
        THEN [out |-> _ack_response(self, self.handler), calls |-> <<>>]
        ELSE LET p == parse(self, data)
             IN  IF p.status # "ok" THEN [out |-> p, calls |-> <<>>]
                 ELSE IF h.ack
                 THEN [out |-> _ack_response(self, Apply(h.function, p.ret)),
                       calls |-> <<p.ret>>]
                 ELSE [out |-> Ok(PyDict([data |-> Apply(h.function, p.ret)])),
                       calls |-> <<p.ret>>]

\* a variant that catches the validation error and answers None
Invoke_swallow(self, data) ==
    LET h == self.handler
    IN  IF h.code = "lambda"
        THEN [out |-> _ack_response(self, self.handler), calls |-> <<>>]
        ELSE LET p == parse(self, data)
             IN  IF p.status # "ok" THEN [out |-> Ok(None), calls |-> <<>>]
                 ELSE IF h.ack
                 THEN [out |-> _ack_response(self, Apply(h.function, p.ret)),
                       calls |-> <<p.ret>>]
                 ELSE [out |-> Ok(Apply(h.function, p.ret)), calls |-> <<p.ret>>]

\* handler(data), the handler being self.handler: the outcome and the
\* keyword arguments of every call made to the user function
Invoke(self, data) ==
    LET h == self.handler
    IN  IF h.code = "lambda"
        THEN [out |-> _ack_response(self, self.handler), calls |-> <<>>]
        ELSE LET p == parse(self, data)
             IN  IF p.status # "ok" THEN [out |-> p, calls |-> <<>>]
                 ELSE IF h.ack
                 THEN [out |-> _ack_response(self, Apply(h.function, p.ret)),
                       calls |-> <<p.ret>>]
                 ELSE [out |-> Ok(Apply(h.function, p.ret)), calls |-> <<p.ret>>]

bind(function) ==
    /\ "client" \in built
    /\ client' = [client EXCEPT !.handler = _handler(client, function)]
    /\ last' = Called("bind", None, Ok(None), <<>>, <<>>)
    /\ UNCHANGED <<server, duplex, built, attached, replaced>>

attach_ack(ack_model, include, exclude, force_wrap, exclude_none) ==
    /\ "client" \in built
    /\ client' = [client EXCEPT
                    !._ack_kwargs = Kwargs(include, exclude, exclude_none),
                    !.ack_model = ack_model,
                    !.force_wrap = (force_wrap = PyBool(TRUE)),
                    !.handler = IF client.handler # None THEN Lambda ELSE None]
    /\ replaced' = client.handler
    /\ last' = Called("attach_ack", None, Ok(None), <<>>, <<>>)
    /\ UNCHANGED <<server, duplex, built, attached>>

\* the transport delivers a message: client.handler(data)
handle(data) ==
    /\ "client" \in built
    /\ client.handler # None
    /\ LET r == Invoke(client, data)
       IN  last' = Called("handle", data, r.out, r.calls, <<>>)
    /\ UNCHANGED <<client, server, duplex, built, attached, replaced>>

\* what a caller may send: nothing, a mapping without the field, an int, a
\* numeric string, a string that is no number
RawData ==
    {None, PyDict(EmptyDict), PyDict([value |-> PyStr("1")]),
     PyDict([value |-> PyStr("x")])}
    \cup {PyDict([value |-> PyInt(n)]) : n \in 0..MaxVal}

Includes == {None, PySet({"value"})}

Excludes == {None, PySet({"note"})}

NextClient ==
    \/ \E ack_model \in {None, Pong}, include \in Includes, exclude \in Excludes,
          force_wrap \in {None, PyBool(TRUE)}, exclude_none \in {None, PyBool(FALSE)} :
          NewClientEvent(Ping, ack_model, None, None, None, include, exclude,
                         force_wrap, exclude_none, None)
    \/ \E function \in Functions : bind(function)
    \/ \E include \in Includes, exclude \in Excludes,
          force_wrap \in {None, PyBool(TRUE)}, exclude_none \in {None, PyBool(FALSE)} :
          attach_ack(Pong, include, exclude, force_wrap, exclude_none)
    \/ \E data \in RawData : handle(data)

SpecClient == Init /\ [][NextClient]_vars

---------------------------------------------------------------------------
(* Properties of the bound handler, under SpecClient *)

\* the payload conforms to Ping: a mapping whose value is an int or a
\* numeric string
ValidPayload(data) ==
    /\ data.t = "dict"
    /\ "value" \in DOMAIN data.d
    /\ \/ data.d["value"].t = "int"
       \/ data.d["value"].t = "str" /\ data.d["value"].s \in {"0", "1", "2", "3", "4", "5"}

\* the parsed fields of a valid payload: value as an int
ParsedFields(data) ==
    LET v == data.d["value"]
    IN  PyDict([value |-> IF v.t = "int" THEN v
                         ELSE PyInt(CHOOSE n \in 0..5 : Digits[n + 1] = v.s)])

\* the last call was the transport invoking a handler that bind produced
HandledByBound ==
    /\ last.op = "handle"
    /\ client.handler.code = "_handler_inner"

\* C4: with no ack schema, the handler bind(fn) stored, invoked with a valid
\* payload P, calls fn exactly once with the parsed fields of P and returns
\* fn's return value unmodified.
C4_PlainHandlerReturnsFnResult ==
    (HandledByBound /\ ~client.handler.ack /\ ValidPayload(last.args))
        => /\ client.ack_model = None
           /\ last.calls = <<ParsedFields(last.args)>>
           /\ last.status = "ok"
           /\ last.ret = Apply(client.handler.function, ParsedFields(last.args))

\* Ping{value: int}, fn(value) = value + 1, payload {value: 1} yields 2
C4_Witness ==
    /\ HandledByBound
    /\ client.ack_model = None
    /\ client.handler.function = "inc"
    /\ last.args = PyDict([value |-> PyInt(1)])
    /\ last.calls = <<PyDict([value |-> PyInt(1)])>>
    /\ last.ret = PyInt(2)

\* C5: a handler bind(fn) produced, with or without an ack schema, invoked
\* with a payload that fails validation, ends in the validation error and
\* never invokes fn.
C5_InvalidPayloadNeverReachesFn ==
    (HandledByBound /\ ~ValidPayload(last.args))
        => /\ last.status = "ValidationError"
           /\ last.calls = <<>>

\* a handler bound under an ack schema refuses a payload whose value is no
\* number
C5_Witness ==
    /\ HandledByBound
    /\ client.handler.ack
    /\ last.args = PyDict([value |-> PyStr("x")])
    /\ last.status = "ValidationError"
    /\ last.calls = <<>>

\* C6: with an ack schema set before bind(fn): a single object fn returns
\* comes back rendered against the ack schema with the stored options,
\* wrapped as {"data": rendered} exactly when force_wrap is set; a sequence
\* of N values comes back as a packed structure of N independently rendered
\* elements, never enveloped.
C6_AckRendering ==
    (HandledByBound /\ client.handler.ack /\ ValidPayload(last.args))
        => LET result == Apply(client.handler.function, ParsedFields(last.args))
               one(x) == render_model(client.ack_model, x, client._ack_kwargs)
           IN  /\ client.ack_model # None
               /\ last.calls = <<ParsedFields(last.args)>>
               /\ IF ~IsSequence(result)
                  THEN /\ last.status = one(result).status
                       /\ last.status = "ok" =>
                            last.ret = IF client.force_wrap
                                       THEN PyDict([data |-> one(result).ret])
                                       ELSE one(result).ret
                  ELSE /\ last.status = "ok"
                       /\ last.ret.t = "packed"
                       /\ Len(last.ret.l) = Len(result.l)
                       /\ \A i \in 1..Len(result.l) :
                            /\ one(result.l[i]).status = "ok"
                            /\ last.ret.l[i] = one(result.l[i]).ret

\* force_wrap set, the function returns a sequence of two objects: the
\* handler answers the two renderings packed, with no envelope
C6_Witness ==
    /\ HandledByBound
    /\ client.handler.ack
    /\ client.force_wrap
    /\ client.handler.function = "many"
    /\ last.args = PyDict([value |-> PyInt(2)])
    /\ last.ret.t = "packed"
    /\ Len(last.ret.l) = 2
    /\ last.ret.l[1] # last.ret.l[2]

\* C3: after bind(fn) stored a handler h and attach_ack then ran, the new
\* handler, invoked with P, invokes h with P and returns the ack rendering
\* of h's return value.
C3_AttachAckWrapsPreviousHandler ==
    (/\ last.op = "handle"
     /\ client.handler = Lambda
     /\ replaced # None
     /\ replaced.code = "_handler_inner")
        => LET h == Invoke([client EXCEPT !.handler = replaced], last.args)
           IN  /\ last.calls = h.calls
               /\ IF h.out.status = "ok"
                  THEN /\ last.status = _ack_response(client, h.out.ret).status
                       /\ last.ret = _ack_response(client, h.out.ret).ret
                  ELSE last.status = h.out.status

---------------------------------------------------------------------------
(* ServerEvent: emit over the transport's emit primitive *)

NewServerEvent(model, namespace, name, description, include, exclude, exclude_none, additional_docs) ==
    /\ "server" \notin built
    /\ server' = ServerEvent(model, namespace, name, description, include,
                             exclude, exclude_none, additional_docs)
    /\ built' = built \cup {"server"}
    /\ last' = Called("ServerEvent", None, Ok(None), <<>>, <<>>)
    /\ UNCHANGED <<client, duplex, attached, replaced>>

\* self.model(**kwargs): value is required and coerced; note is optional and
\* is populated by its alias or, allow_population_by_field_name being set,
\* by its field name
Construct(model, kwargs) ==
    IF "value" \notin DOMAIN kwargs THEN Raise("ValidationError")
    ELSE LET v == CoerceInt(kwargs["value"])
             note == IF "Note" \in DOMAIN kwargs THEN kwargs["Note"]
                     ELSE IF "note" \in DOMAIN kwargs THEN kwargs["note"]
                     ELSE None
         IN  IF v.status # "ok" THEN v
             ELSE Ok(PyObj(model, [f \in Fields(model) |->
                                     IF f = "value" THEN v.ret ELSE note]))

\* flask_socketio.emit(event, data, to=, include_self=, namespace=): the call
\* as the transport sees it
socketio_emit(event, data, to, include_self, namespace) ==
    [event |-> event, data |-> data, to |-> to, include_self |-> include_self,
     namespace |-> namespace]

\* a variant that hands the room and the namespace over in each other's place
_emit_swapped(self, data, namespace, room, include_self, answer) ==
    [out |-> Ok(answer),
     emits |-> <<socketio_emit(self.name, data, namespace, include_self, room)>>]

\* ServerEvent._emit: the transport's answer is returned as it is
_emit(self, data, namespace, room, include_self, answer) ==
    [out |-> Ok(answer),
     emits |-> <<socketio_emit(self.name, data, room, include_self, namespace)>>]

\* ServerEvent.emit; answer is what the transport will answer
ServerEvent_emit(self, _room, _include_self, _data, _namespace, kwargs, answer) ==
    LET made == IF _data = None THEN Construct(self.model, kwargs) ELSE Ok(_data)
    IN  IF made.status # "ok" THEN [out |-> made, emits |-> <<>>]
        ELSE LET rendered == render_model(self.model, made.ret, self._emit_kwargs)
             IN  IF rendered.status # "ok" THEN [out |-> rendered, emits |-> <<>>]
                 ELSE _emit(self, rendered.ret, _namespace, _room, _include_self,
                            answer)

emit(_room, _include_self, _data, _namespace, kwargs, answer) ==
    /\ "server" \in built
    /\ LET r == ServerEvent_emit(server, _room, _include_self, _data, _namespace,
                                 kwargs, answer)
       IN  last' = Called("emit",
                          [room |-> _room, include_self |-> _include_self,
                           data |-> _data, namespace |-> _namespace,
                           kwargs |-> kwargs, answer |-> answer],
                          r.out, <<>>, r.emits)
    /\ UNCHANGED <<client, server, duplex, built, attached, replaced>>

Rooms == {None, PyStr("r1")}

\* the field values a caller may pass to emit
FieldValues ==
    {EmptyDict, [value |-> PyStr("x")]}
    \cup {[value |-> PyInt(n)] : n \in 0..MaxVal}
    \cup {[value |-> PyInt(MaxVal), note |-> PyStr("hi")],
          [value |-> PyInt(MaxVal), Note |-> PyStr("hi")]}

\* the payloads a caller may pass to emit ready-made
Payloads ==
    {None, PyObj(Pong, [value |-> PyInt(0), note |-> PyStr("hi")]),
     PyObj(Ping, [value |-> PyInt(0)])}

\* what the transport may answer
Answers == {None, PyBool(TRUE)}

NextServer ==
    \/ \E name \in OptNames, include \in Includes, exclude \in Excludes,
          exclude_none \in {None, PyBool(FALSE)} :
          NewServerEvent(Pong, None, name, None, include, exclude, exclude_none,
                         None)
    \/ \E room \in Rooms, include_self \in BOOLEAN, data \in Payloads,
          namespace \in {None, PyStr(NamePool[1])}, answer \in Answers :
          \E kwargs \in IF data = None THEN FieldValues ELSE {EmptyDict} :
             emit(room, include_self, data, namespace, kwargs, answer)

SpecServer == Init /\ [][NextServer]_vars

---------------------------------------------------------------------------
(* Properties of emit, under SpecServer *)

\* the payload emit is to send: data itself, or Pong built from the field
\* values; Unsendable when there is none that conforms to Pong
Unsendable == [t |-> "unsendable"]

PayloadOf(args) ==
    IF args.data # None
    THEN IF args.data.t = "obj" /\ args.data.cls = Pong THEN args.data
         ELSE Unsendable
    ELSE IF /\ "value" \in DOMAIN args.kwargs
            /\ args.kwargs["value"].t = "int"
         THEN PyObj(Pong,
                    [value |-> args.kwargs["value"],
                     note |-> IF "Note" \in DOMAIN args.kwargs
                              THEN args.kwargs["Note"]
                              ELSE IF "note" \in DOMAIN args.kwargs
                              THEN args.kwargs["note"]
                              ELSE None])
         ELSE Unsendable

\* C7: emit(room, include_self, data, namespace, **fieldValues) makes exactly
\* one call to the transport's emit, with the event's name, the payload
\* (data, or the instance built from fieldValues when data is not supplied)
\* rendered against the event's schema with the stored options, the given
\* room, namespace and include_self, and returns what the transport returns.
C7_EmitCallsTransportOnce ==
    (last.op = "emit" /\ PayloadOf(last.args) # Unsendable)
        => /\ last.status = "ok"
           /\ Len(last.emits) = 1
           /\ last.emits[1].event = server.name
           /\ last.emits[1].data =
                render_model(server.model, PayloadOf(last.args),
                             server._emit_kwargs).ret
           /\ last.emits[1].to = last.args.room
           /\ last.emits[1].namespace = last.args.namespace
           /\ last.emits[1].include_self = last.args.include_self
           /\ last.ret = last.args.answer

\* emit(room="r1", value=MaxVal, note="hi") on a named event that drops the
\* note field: one call, to room r1, carrying only value
C7_Witness ==
    /\ last.op = "emit"
    /\ last.args.data = None
    /\ last.args.room = PyStr("r1")
    /\ last.args.namespace # None
    /\ ~last.args.include_self
    /\ "note" \in DOMAIN last.args.kwargs
    /\ server.name # None
    /\ Len(last.emits) = 1
    /\ last.emits[1].to = PyStr("r1")
    /\ last.emits[1].data = PyDict([value |-> PyInt(MaxVal)])
    /\ last.ret = PyBool(TRUE)

---------------------------------------------------------------------------
(* DuplexEvent: construction, similar, attach_name, attach_namespace *)

\* DuplexEvent.__init__: BaseEvent.__init__ runs first and, given a name,
\* calls DuplexEvent.attach_name, which reads self.client_event before
\* __init__ has set it
DuplexEvent(client_event, server_event, use_event, namespace, name, description, additional_docs) ==
    IF name # None THEN Raise("AttributeError")
    ELSE Ok([name |-> None,
             namespace |-> namespace,
             additional_docs |-> additional_docs,
             description |-> description,
             use_event |-> (use_event = PyBool(TRUE))])

\* DuplexEvent.similar: the two children, then the pair; the arguments are
\* positional, in the order the call site gives them
similar(model, ack_model, use_event, name, description, namespace, handler, include, exclude, exclude_none, ack_include, ack_exclude, ack_exclude_none, ack_force_wrap, additional_docs) ==
    LET client_event == ClientEvent(model, ack_model, namespace, name, description,
                                    handler, ack_include, ack_exclude,
                                    ack_force_wrap, ack_exclude_none, None)
        server_event == ServerEvent(model, name, namespace, description, include,
                                    exclude, exclude_none, None)
    IN  [client_event |-> client_event,
         server_event |-> server_event,
         out |-> DuplexEvent(client_event, server_event, use_event, namespace,
                             name, description, additional_docs)]

NewDuplexEvent(use_event, namespace, name, description, additional_docs) ==
    /\ {"client", "server"} \subseteq built
    /\ "duplex" \notin built
    /\ LET r == DuplexEvent(client, server, use_event, namespace, name,
                            description, additional_docs)
       IN  /\ duplex' = IF r.status = "ok" THEN r.ret ELSE duplex
           /\ built' = IF r.status = "ok" THEN built \cup {"duplex"} ELSE built
           /\ last' = Called("DuplexEvent", [name |-> name, namespace |-> namespace],
                             [r EXCEPT !.ret = None], <<>>, <<>>)
    /\ UNCHANGED <<client, server, attached, replaced>>

NewSimilar(model, ack_model, name, namespace) ==
    /\ built = {}
    /\ LET r == similar(model, ack_model, None, name, None, namespace, None,
                        None, None, PyBool(TRUE), None, None, PyBool(TRUE),
                        PyBool(FALSE), None)
       IN  /\ IF r.out.status = "ok"
              THEN /\ client' = r.client_event
                   /\ server' = r.server_event
                   /\ duplex' = r.out.ret
                   /\ built' = {"client", "server", "duplex"}
              ELSE UNCHANGED <<client, server, duplex, built>>
           /\ last' = Called("similar",
                             [model |-> model, name |-> name, namespace |-> namespace],
                             [r.out EXCEPT !.ret = None], <<>>, <<>>)
    /\ UNCHANGED <<attached, replaced>>

\* a variant that leaves the server event's name as it was
attach_name_client_only(name) ==
    /\ "duplex" \in built
    /\ duplex' = [duplex EXCEPT !.name = name]
    /\ client' = [client EXCEPT !.name = name]
    /\ attached' = attached \cup {"name"}
    /\ last' = Called("attach_name", name, Ok(None), <<>>, <<>>)
    /\ UNCHANGED <<server, built, replaced>>

\* DuplexEvent.attach_name
attach_name(name) ==
    /\ "duplex" \in built
    /\ duplex' = [duplex EXCEPT !.name = name]
    /\ client' = [client EXCEPT !.name = name]
    /\ server' = [server EXCEPT !.name = name]
    /\ attached' = attached \cup {"name"}
    /\ last' = Called("attach_name", name, Ok(None), <<>>, <<>>)
    /\ UNCHANGED <<built, replaced>>

\* DuplexEvent.attach_namespace
attach_namespace(namespace) ==
    /\ "duplex" \in built
    /\ duplex' = [duplex EXCEPT !.namespace = namespace]
    /\ client' = [client EXCEPT !.namespace = namespace]
    /\ server' = [server EXCEPT !.namespace = namespace]
    /\ attached' = attached \cup {"namespace"}
    /\ last' = Called("attach_namespace", namespace, Ok(None), <<>>, <<>>)
    /\ UNCHANGED <<built, replaced>>

NextDuplex ==
    \/ \E name \in OptNames, namespace \in OptNames :
          NewClientEvent(Ping, None, namespace, name, None, None, None, None,
                         None, None)
    \/ \E name \in OptNames, namespace \in OptNames :
          NewServerEvent(Ping, namespace, name, None, None, None, None, None)
    \/ \E name \in OptNames, namespace \in OptNames :
          NewDuplexEvent(None, namespace, name, None, None)
    \/ \E name \in OptNames, namespace \in OptNames :
          NewSimilar(Ping, Pong, name, namespace)
    \/ \E name \in Names : attach_name(name)
    \/ \E namespace \in Names : attach_namespace(namespace)

SpecDuplex == Init /\ [][NextDuplex]_vars

---------------------------------------------------------------------------
(* Properties of the pair's identity, under SpecDuplex *)

\* C1 as stated: once any DuplexEvent setter has run, the two children agree
\* in name and in namespace, and attach_name(X) leaves X on both.
C1_ChildrenNeverDiverge ==
    /\ attached # {} =>
          /\ client.name = server.name
          /\ client.namespace = server.namespace
    /\ last.op = "attach_name" =>
          /\ client.name = last.args
          /\ server.name = last.args

\* C1 as the code has it: once attach_name has run the children agree in
\* name, once attach_namespace has run they agree in namespace, and each
\* setter leaves its argument on the pair and on both children.
C1_ChildrenAgreeOnWhatWasAttached ==
    /\ "name" \in attached =>
          /\ client.name = server.name
          /\ client.name = duplex.name
    /\ "namespace" \in attached =>
          /\ client.namespace = server.namespace
          /\ client.namespace = duplex.namespace
    /\ last.op = "attach_name" =>
          /\ client.name = last.args
          /\ server.name = last.args
    /\ last.op = "attach_namespace" =>
          /\ client.namespace = last.args
          /\ server.namespace = last.args

\* both setters have run on a pair built from children that differed in
\* both, the name last
C1_Witness ==
    /\ attached = {"name", "namespace"}
    /\ last.op = "attach_name"
    /\ client.name = last.args
    /\ server.name = last.args
    /\ client.namespace = server.namespace

\* C2: similar(model, ack_model, name=N, namespace=S) succeeds for every N
\* and S and returns a pair whose children both reference the model and
\* carry name N and namespace S, as the pair itself does.
C2_SimilarBuildsMatchingPair ==
    last.op = "similar" =>
        /\ last.status = "ok"
        /\ client.model = last.args.model
        /\ server.model = last.args.model
        /\ client.name = last.args.name
        /\ server.name = last.args.name
        /\ duplex.name = last.args.name
        /\ client.namespace = last.args.namespace
        /\ server.namespace = last.args.namespace
        /\ duplex.namespace = last.args.namespace

---------------------------------------------------------------------------
(* create_doc: the documentation descriptors *)

\* a value remove_none drops: absent or empty
IsEmpty(v) ==
    \/ v = None
    \/ v.t = "list" /\ v.l = <<>>
    \/ v.t = "str" /\ v.s = ""
    \/ v.t = "dict" /\ DOMAIN v.d = {}

\* remove_none(data, **kwargs): the keyword arguments laid over data, the
\* keys with absent or empty values dropped
remove_none(data, kwargs) ==
    LET all == Merge(data, kwargs)
    IN  [k \in {x \in DOMAIN all : ~IsEmpty(all[x])} |-> all[k]]

\* getattr(self.model, "name", None) or self.model.__name__
model_name(self) ==
    IF self.model.name # None /\ self.model.name.s # ""
    THEN self.model.name.s
    ELSE self.model.typename

\* Event.create_doc; a key given by both ** mappings of the call to
\* remove_none is a duplicate keyword argument
Event_create_doc(self, namespace, additional_docs) ==
    LET ns == IF namespace = None THEN self.namespace ELSE namespace
        stored == OrEmpty(self.additional_docs)
        given == OrEmpty(additional_docs)
    IN  IF DOMAIN stored \cap DOMAIN given # {} THEN Raise("TypeError")
        ELSE Ok(PyDict(remove_none(
                 [description |-> self.description,
                  tags |-> IF ns = None
                           THEN PyList(<<PyDict([name |->
                                    PyStr("namespace-" \o Format(ns))])>>)
                           ELSE PyList(<<>>),
                  message |-> PyDict([k \in {"$ref"} |->
                                PyStr("#/components/messages/" \o model_name(self))])],
                 Merge(stored, given))))

\* {key: super().create_doc(namespace, additional_docs)}
Keyed(key, doc) ==
    IF doc.status # "ok" THEN doc ELSE Ok(PyDict([k \in {key} |-> doc.ret]))

ClientEvent_create_doc(self, namespace, additional_docs) ==
    Keyed("publish", Event_create_doc(self, namespace, additional_docs))

ServerEvent_create_doc(self, namespace, additional_docs) ==
    Keyed("subscribe", Event_create_doc(self, namespace, additional_docs))

\* DuplexEvent.create_doc: additional_docs.update(...) first, on whatever
\* the caller passed
DuplexEvent_create_doc(self, client_event, server_event, namespace, additional_docs) ==
    IF additional_docs = None THEN Raise("AttributeError")
    ELSE LET updated == PyDict(Merge(additional_docs.d,
                                     OrEmpty(self.additional_docs)))
             publish == ClientEvent_create_doc(client_event, namespace, updated)
             subscribe == ServerEvent_create_doc(server_event, namespace, updated)
         IN  IF publish.status # "ok" THEN publish
             ELSE IF subscribe.status # "ok" THEN subscribe
             ELSE LET result == Merge(publish.ret.d, subscribe.ret.d)
                  IN  Ok(PyDict(IF self.description # None
                                THEN Merge(result, [description |-> self.description])
                                ELSE result))

\* create_doc called on the client event (side "client") or on the server
\* event (side "server")
create_doc(side, namespace, additional_docs) ==
    /\ side \in built
    /\ last' = Called("create_doc",
                      [side |-> side, namespace |-> namespace,
                       additional_docs |-> additional_docs],
                      IF side = "client"
                      THEN ClientEvent_create_doc(client, namespace, additional_docs)
                      ELSE ServerEvent_create_doc(server, namespace, additional_docs),
                      <<>>, <<>>)
    /\ UNCHANGED <<client, server, duplex, built, attached, replaced>>

\* create_doc called on the pair
duplex_create_doc(namespace, additional_docs) ==
    /\ "duplex" \in built
    /\ last' = Called("duplex_create_doc",
                      [namespace |-> namespace, additional_docs |-> additional_docs],
                      DuplexEvent_create_doc(duplex, client, server, namespace,
                                             additional_docs),
                      <<>>, <<>>)
    /\ UNCHANGED <<client, server, duplex, built, attached, replaced>>

\* the extras an object is built with or a call passes: none, one key, the
\* same key with another value, another key, a key with nothing under it
ExtraDocs ==
    {None, PyDict([x |-> PyStr("stored")]), PyDict([x |-> PyStr("given")]),
     PyDict([y |-> PyStr("given")]), PyDict([y |-> None])}

Descriptions == {None, PyStr("about")}

FirstName == PyStr(NamePool[1])

NextDocs ==
    \/ \E model \in {Ping, Pong}, namespace \in OptNames,
          description \in Descriptions,
          additional_docs \in {None, PyDict([x |-> PyStr("stored")])} :
          NewClientEvent(model, None, namespace, None, description, None, None,
                         None, None, additional_docs)
    \/ \E namespace \in {None, FirstName},
          additional_docs \in {None, PyDict([y |-> PyStr("stored")])} :
          NewServerEvent(Pong, namespace, None, None, None, None, None,
                         additional_docs)
    \/ \E description \in Descriptions,
          additional_docs \in {None, PyDict([x |-> PyStr("pair")])} :
          NewDuplexEvent(None, None, None, description, additional_docs)
    \/ \E side \in {"client", "server"}, namespace \in OptNames,
          additional_docs \in ExtraDocs :
          create_doc(side, namespace, additional_docs)
    \/ \E namespace \in OptNames, additional_docs \in ExtraDocs :
          duplex_create_doc(namespace, additional_docs)

SpecDocs == Init /\ [][NextDocs]_vars

---------------------------------------------------------------------------
(* Properties of the descriptors, under SpecDocs *)

\* the last call was create_doc on the client or the server event
DocOfEvent == last.op = "create_doc"

\* the event create_doc was last called on
Described == IF last.args.side = "client" THEN client ELSE server

\* the descriptor the last call to an event's create_doc returned
Descriptor ==
    last.ret.d[IF last.args.side = "client" THEN "publish" ELSE "subscribe"].d

HasNamespaceTag(doc) ==
    /\ "tags" \in DOMAIN doc
    /\ doc["tags"].t = "list"
    /\ Len(doc["tags"].l) > 0

\* C8: the descriptor of Event.create_doc carries a namespace tag if and
\* only if no namespace argument was supplied to the call, whatever the
\* event's stored namespace, and holds no key whose value is absent or empty.
C8_TagIffNoNamespaceGiven ==
    (DocOfEvent /\ last.status = "ok")
        => /\ HasNamespaceTag(Descriptor) <=> (last.args.namespace = None)
           /\ \A k \in DOMAIN Descriptor : ~IsEmpty(Descriptor[k])

\* C9: Event.create_doc with stored extras E and call-supplied extras O,
\* shared keys included, succeeds, and the descriptor holds every non-empty
\* key of E and O, O's value standing for a key of both.
C9_ExtrasMergedOverrideWins ==
    DocOfEvent
        => LET E == OrEmpty(Described.additional_docs)
               O == OrEmpty(last.args.additional_docs)
               want(k) == IF k \in DOMAIN O THEN O[k] ELSE E[k]
           IN  /\ last.status = "ok"
               /\ \A k \in DOMAIN E \cup DOMAIN O :
                     ~IsEmpty(want(k)) =>
                        /\ k \in DOMAIN Descriptor
                        /\ Descriptor[k] = want(k)

\* C10: DuplexEvent.create_doc, additional_docs omitted or not, returns the
\* client's publish entry and the server's subscribe entry, the pair's
\* extras and the call's merged into both, and a top-level description
\* exactly when the pair's description is set.
C10_DuplexDocHoldsBothEntries ==
    last.op = "duplex_create_doc"
        => LET E == OrEmpty(duplex.additional_docs)
               O == OrEmpty(last.args.additional_docs)
               extras == {k \in DOMAIN E \cup DOMAIN O :
                            ~IsEmpty(IF k \in DOMAIN E THEN E[k] ELSE O[k])}
           IN  /\ last.status = "ok"
               /\ {"publish", "subscribe"} \subseteq DOMAIN last.ret.d
               /\ ("description" \in DOMAIN last.ret.d) <=> (duplex.description # None)
               /\ \A k \in extras :
                     /\ k \in DOMAIN last.ret.d["publish"].d
                     /\ k \in DOMAIN last.ret.d["subscribe"].d

====
